---- MODULE Spec2Model ----
(***************************************************************************)
(* Audio-feature inference subsystem: the Feature Cache                    *)
(* (src/src/features/cache.py), the three source clients                   *)
(* (src/src/features/clients/*.py), the aggregation waterfall              *)
(* (src/src/features/service.py) and the preview analyzer with its         *)
(* Analysis Cache (src/src/analysis/audio_analyzer.py), together with two  *)
(* pure computations: the candidate selection of the fuzzy search and the  *)
(* key/mode detection of the analyzer.                                     *)
(*                                                                         *)
(* Time is counted in whole days.  An `await` that really suspends (an     *)
(* HTTP attempt, a thread-pool job) is one step; FeatureCache.get/set      *)
(* contain no suspension point and run inside the step that calls them.    *)
(***************************************************************************)
EXTENDS Integers, Sequences, FiniteSets, TLC

VARIABLES
    \* -- the waterfall (service.py) over the Feature Cache
    now,        \* the wall clock (datetime.utcnow()), in days
    ticks,      \* number of clock advances so far (bounds the run)
    gsbEnabled, \* AudioFeaturesService.getsongbpm is not None
    fcache,     \* Feature Cache directory: track id -> file content
    pc,         \* position of the get_features call in flight
    cur,        \* its track id
    attempt,    \* attempts already made by the source-client call in flight
    mbid,       \* mbid held by _fetch_from_acousticbrainz
    result,     \* outcome of the get_features call
    pre,        \* the track's cache file when the call started
    prev,       \* what get_features returned for the track before this call
    invoked,    \* client operations invoked by the call
    aRet,       \* how GetSongBPM fetch ended in this call
    bRaised,    \* the MusicBrainz/AcousticBrainz chain ended in an exception
    wrote,      \* cache.set calls made by the call
    hist,       \* per track: the Descriptor Set get_features returned last
    \* -- one source-client call under its tenacity decorator
    cOp,        \* the client operation called ("none" before the call)
    cLog,       \* HTTP outcomes of its attempts, in order
    cRet,       \* "running", or how the call ended: value | none | reraise
    \* -- FeatureCache.get on one file
    gFile,      \* the file
    gNow,       \* the clock at the read
    gOut,       \* "pending", or the outcome of get
    \* -- AudioFeatureAnalyzer.analyze_preview over the Analysis Cache
    acache,     \* Analysis Cache directory: track id -> file content
    apc,        \* position of the analyze_preview call in flight
    aUrl,       \* its preview_url
    aTrack,     \* its track_id
    aClip,      \* the bytes downloaded
    aRes,       \* outcome of the call
    aPre,       \* the track's cache file when the call started
    aDown,      \* downloads started by the call
    aRuns,      \* runs of _extract_features started by the call
    aTmp,       \* the call's temporary .mp3 file: none | present | deleted
    tmpFiles,   \* temporary .mp3 files present on disk
    aSeen,      \* per decodable clip: the features its first analysis produced
    aAgain,     \* the run of this call analysed a clip that was analysed before
    \* -- the candidate selection of MusicBrainzClient.fuzzy_search_mbid
    mRecs,      \* data["recordings"]: the "length" of each recording, in order
    mTarget,    \* duration_ms of the track (0: not available)
    mOut,       \* whether the selection ran, and the position of the recording returned
    \* -- key and mode detection of _extract_features
    kChroma,    \* chroma_sum: accumulated energy of the 12 pitch classes
    kOut,       \* whether the detection ran, and the key and mode reported
    \* -- a second get_features call for the same track, running concurrently
    oPc,        \* its position: idle | run (after a cache miss) | done
    oRes,       \* its outcome: cached | value | none
    \* -- SpotifyClient.get_track_audio_features
    tAuth,      \* self.sp is set (authenticate() was called)
    tHasAnalyzer, \* self.audio_analyzer is not None
    tPc,        \* position of the call in flight: idle | analyze | done
    tId,        \* its track_id
    tAns,       \* what the catalog answered to the lookup
    tLookups,   \* ids passed to self.sp.track by the call, in order
    tCalls,     \* (preview_url, track_id) pairs passed to analyze_preview
    tGot,       \* how analyze_preview ended
    tRes,       \* outcome of the call
    tServed,    \* calls this client has completed
    \* -- the energy computation of _extract_features
    eRms,       \* rms: the RMS amplitude of each frame, in hundredths of full scale
    eOut,       \* whether it ran, and the energy reported as a fraction num/den
    \* -- building one Descriptor Set from a vendor response or a stored record
    vSource,    \* who builds it: "getsongbpm", "acousticbrainz" or "cache"
    vPayload,   \* the raw value of each descriptor in the response or record
    vOut,       \* whether it ran, and the Descriptor Set or absent
    \* -- SpotifyClient.add_tracks_to_playlist over _with_retry
    rAuth,      \* self.sp is set
    rPc,        \* "idle" | "call" (about to invoke playlist_add_items) | "done"
    rN,         \* len(track_uris)
    rI,         \* i, the offset of the current batch
    rTry,       \* invocations already made inside the current _with_retry
    rLog,       \* every invocation of playlist_add_items, in order
    rAdded,     \* tracks_added
    rRes,       \* outcome of add_tracks_to_playlist
    \* -- FeatureCache.clear on a populated cache
    lFiles,     \* the cache directory before the call
    lArg,       \* the argument of clear ("NONE": no argument)
    lOut        \* whether clear ran, the directory after it, and get(id) after it

fvars == <<now, ticks, gsbEnabled, fcache, pc, cur, attempt, mbid, result,
           pre, prev, invoked, aRet, bRaised, wrote, hist>>
cvars == <<cOp, cLog, cRet>>
gvars == <<gFile, gNow, gOut>>
avars == <<acache, apc, aUrl, aTrack, aClip, aRes, aPre, aDown, aRuns, aTmp, tmpFiles,
           aSeen, aAgain>>
mvars == <<mRecs, mTarget, mOut>>
kvars == <<kChroma, kOut>>
ovars == <<oPc, oRes>>
tvars == <<tAuth, tHasAnalyzer, tPc, tId, tAns, tLookups, tCalls, tGot, tRes, tServed>>
evars == <<eRms, eOut>>
vvars == <<vSource, vPayload, vOut>>
rvars == <<rAuth, rPc, rN, rI, rTry, rLog, rAdded, rRes>>
lvars == <<lFiles, lArg, lOut>>
vars == <<fvars, cvars, gvars, avars, mvars, kvars, ovars, tvars, evars, vvars, rvars, lvars>>

----------------------------------------------------------------------------
(* Bounds of the model *)

MaxTicks == 1
MaxTmpFiles == 2
MaxRecordings == 3
MaxEnergy == 2
MaxFrames == 22
MaxCalls == 3

(* Program constants *)

TTLDays == 30
StopAfterAttempt == 3
KeyMin == 0
KeyMax == 11

(* clock advances: exactly the TTL, and one day more *)
TickSteps == {TTLDays, TTLDays + 1}

(* SpotifyTrack ids.  "t1" carries an ISRC; "" and "a/b" do not.  The cache *)
(* path of "a/b" lies in a directory that does not exist.                   *)
TrackIds == {"t1", "", "a/b"}
HasIsrc(t) == t = "t1"

Mbids == {"m1", "m2"}
NoId == "none"
NoKey == -1
PayloadKeys == {7}

----------------------------------------------------------------------------
(* AudioFeatures objects (models.py).  NoneDS stands for Python None.       *)

DS(src, key, sid, ret) == [src |-> src, key |-> key, sid |-> sid, ret |-> ret]
NoneDS == DS("none", NoKey, NoId, -1)

(* Field(ge=0, le=11) on key; None is allowed *)
ValidKey(k) == k = NoKey \/ (k >= KeyMin /\ k <= KeyMax)

----------------------------------------------------------------------------
(* Cache files.  kind: nofile | badjson (unparseable) | nonobj (JSON that   *)
(* is no object) | obj.  For an object, ra is the shape of "retrieved_at":  *)
(* missing | num | badstr | naive | aware, and rad its day.                 *)

File(kind, nf, ra, rad, src, key, sid) ==
    [kind |-> kind, nf |-> nf, ra |-> ra, rad |-> rad,
     src |-> src, key |-> key, sid |-> sid]
NoFile == File("nofile", FALSE, "missing", 0, "none", NoKey, NoId)

(* os.path.join(cache_dir, f"{track_id}.json") can be opened for writing *)
WritablePath(t) == t # "a/b"

(* a set that stamps the entry with the time of the write *)
SetDataStampsNow(features, nowv) ==
    IF features = NoneDS
    THEN File("obj", TRUE, "naive", nowv, "none", NoKey, NoId)
    ELSE File("obj", FALSE, "naive", nowv + 1,
              features.src, features.key, features.sid)

(* FeatureCache.set: the JSON document written *)
SetData(features, nowv) ==
    IF features = NoneDS
    THEN File("obj", TRUE, "naive", nowv, "none", NoKey, NoId)
    ELSE File("obj", FALSE, "naive", features.ret,
              features.src, features.key, features.sid)

CacheSet(files, t, features, nowv) ==
    IF WritablePath(t)
    THEN [files EXCEPT ![t] = SetData(features, nowv)]
    ELSE files   \* OSError: logged and swallowed

(* a TTL test that lets an entry live one day longer *)
ExpiredOffByOne(rad, nowv) == nowv - rad > TTLDays + 1

(* age > self.ttl *)
Expired(rad, nowv) == nowv - rad > TTLDays

(* FeatureCache.get on one file: the value returned (NoneDS for None), the  *)
(* exception that escapes ("none" when there is none), the file afterwards. *)
GetOut(ret, exc, file) == [ret |-> ret, exc |-> exc, file |-> file]

CacheGet(f, nowv) ==
    CASE f.kind = "nofile"  -> GetOut(NoneDS, "none", f)
      [] f.kind = "badjson" -> GetOut(NoneDS, "none", NoFile)
      [] f.kind = "nonobj"  -> GetOut(NoneDS, "TypeError", f)
      [] f.ra = "missing"   -> GetOut(NoneDS, "none", NoFile)
      [] f.ra = "num"       -> GetOut(NoneDS, "TypeError", f)
      [] f.ra = "badstr"    -> GetOut(NoneDS, "none", NoFile)
      [] f.ra = "aware"     -> GetOut(NoneDS, "TypeError", f)
      [] Expired(f.rad, nowv) -> GetOut(NoneDS, "none", NoFile)
      [] f.nf               -> GetOut(NoneDS, "none", f)
      [] ~ValidKey(f.key)   -> GetOut(NoneDS, "none", NoFile)
      [] OTHER              -> GetOut(DS(f.src, f.key, f.sid, f.rad), "none", f)

(* FeatureCache.clear; "NONE" stands for the argument None *)
CacheClear(files, arg) ==
    IF arg # "NONE" /\ arg # ""
    THEN [files EXCEPT ![arg] = NoFile]
    ELSE [t \in TrackIds |-> NoFile]

----------------------------------------------------------------------------
(* Source clients.  One HTTP attempt ends in one of these outcomes.         *)

Outcomes == {"ok", "empty", "s404", "s5xx", "s4xx", "timeout", "connerr", "malformed"}

(* A response: outcome, and for "ok" the mapped key and the id it carries *)
Resp(o, key, id) == [o |-> o, key |-> key, id |-> id]
FeatureResponses ==
    {Resp(o, NoKey, NoId) : o \in Outcomes \ {"ok"}}
        \cup {Resp("ok", k, "g1") : k \in PayloadKeys}
IdResponses ==
    {Resp(o, NoKey, NoId) : o \in Outcomes \ {"ok"}}
        \cup {Resp("ok", NoKey, m) : m \in Mbids \cup {NoId}}

(* a handler without the 404 test: the status error is re-raised *)
AttemptEffectNo404(o) ==
    CASE o = "ok"        -> "value"
      [] o = "empty"     -> "none"
      [] o = "s404"      -> "HTTPStatusError"
      [] o = "s5xx"      -> "HTTPStatusError"
      [] o = "s4xx"      -> "HTTPStatusError"
      [] o = "timeout"   -> "TimeoutException"
      [] o = "connerr"   -> "none"
      [] o = "malformed" -> "none"

(* The body of fetch / lookup_mbid_by_isrc / fuzzy_search_mbid for one      *)
(* attempt: what the try/except turns the outcome into.  The three clients  *)
(* share the same handlers:                                                 *)
(*   status 404               -> return None                                *)
(*   raise_for_status() fails -> HTTPStatusError, re-raised unless 404      *)
(*   httpx.TimeoutException   -> re-raised                                  *)
(*   any other Exception      -> logged, return None                        *)
AttemptEffect(o) ==
    CASE o = "ok"        -> "value"
      [] o = "empty"     -> "none"
      [] o = "s404"      -> "none"
      [] o = "s5xx"      -> "HTTPStatusError"
      [] o = "s4xx"      -> "HTTPStatusError"
      [] o = "timeout"   -> "TimeoutException"
      [] o = "connerr"   -> "none"
      [] o = "malformed" -> "none"

(* retry_if_exception_type((httpx.HTTPError, httpx.TimeoutException)) *)
RetryIf(e) == e \in {"HTTPStatusError", "TimeoutException"}

(* tenacity around attempt number n (1-based): value | none | retry | reraise *)
ClientStep(o, n) ==
    LET e == AttemptEffect(o) IN
    IF e \in {"value", "none"} THEN e
    ELSE IF RetryIf(e) /\ n < StopAfterAttempt THEN "retry"
    ELSE "reraise"

----------------------------------------------------------------------------
(* AudioFeaturesService.get_features: what follows each client call.        *)

(* a waterfall that goes on to the chain whatever GetSongBPM returned *)
AfterSourceAFallsThrough(step) == "chain"

(* after self.getsongbpm.fetch (service.py 70-77): store | chain | propagate. *)
(* `except Exception` turns an exception of the client into a log line.      *)
AfterSourceA(step) ==
    CASE step = "value"   -> "store"
      [] step = "none"    -> "chain"
      [] step = "reraise" -> "chain"

(* a chain that runs the fuzzy search whatever the ISRC lookup returned *)
AfterIsrcAlwaysFuzzy(step, id) ==
    CASE step = "reraise" -> "raise"
      [] OTHER            -> "fuzzy"

(* _fetch_from_acousticbrainz after lookup_mbid_by_isrc: ab | fuzzy | raise *)
AfterIsrc(step, id) ==
    CASE step = "reraise"             -> "raise"
      [] step = "value" /\ id # NoId  -> "ab"
      [] OTHER                        -> "fuzzy"

(* ... after fuzzy_search_mbid: ab | absent | raise *)
AfterFuzzy(step, id) ==
    CASE step = "reraise"             -> "raise"
      [] step = "value" /\ id # NoId  -> "ab"
      [] OTHER                        -> "absent"

(* ... after acousticbrainz.fetch: value | absent | raise *)
AfterAb(step) ==
    CASE step = "reraise" -> "raise"
      [] step = "value"   -> "value"
      [] OTHER            -> "absent"

(* a waterfall without the try/except around the chain *)
AfterChainPropagates(chain) ==
    CASE chain = "value"  -> "store"
      [] chain = "absent" -> "negative"
      [] chain = "raise"  -> "propagate"

(* get_features after the chain (service.py 80-92): store | negative |       *)
(* propagate.  `except Exception` swallows an exception of the chain.        *)
AfterChain(chain) ==
    CASE chain = "value"  -> "store"
      [] chain = "absent" -> "negative"
      [] chain = "raise"  -> "negative"

(* first step of the chain *)
FirstB(t) == IF HasIsrc(t) THEN "isrc" ELSE "fuzzy"

(* a waterfall that goes to the chain without asking GetSongBPM *)
AfterMissSkipsA(enabled, t) == FirstB(t)

(* get_features after a cache miss (service.py 68-70): `if self.getsongbpm:` *)
AfterMiss(enabled, t) == IF enabled THEN "source_a" ELSE FirstB(t)

Res(tag, ds) == [tag |-> tag, ds |-> ds]
NoRes == Res("pending", NoneDS)

(* the Descriptor Set get_features returned last for a track (NoneDS: none, *)
(* or the entry was cleared or damaged since), and whether the cache took it *)
Hist(ds, stored) == [ds |-> ds, stored |-> stored]
NoHist == Hist(NoneDS, FALSE)

----------------------------------------------------------------------------
(* The waterfall: a service just constructed over an empty cache directory *)

FInit ==
    /\ now = 0
    /\ ticks = 0
    /\ gsbEnabled \in BOOLEAN
    /\ fcache = [t \in TrackIds |-> NoFile]
    /\ pc = "idle"
    /\ cur = "t1"
    /\ attempt = 0
    /\ mbid = NoId
    /\ result = NoRes
    /\ pre = NoFile
    /\ prev = NoHist
    /\ invoked = {}
    /\ aRet = Res("notcalled", NoneDS)
    /\ bRaised = FALSE
    /\ wrote = 0
    /\ hist = [t \in TrackIds |-> NoHist]

(* service.py 74-75, 84-85: await self.cache.set(track.id, features); return features *)
Store(features) ==
    /\ fcache' = CacheSet(fcache, cur, features, now)
    /\ result' = Res("value", features)
    /\ hist' = [hist EXCEPT ![cur] =
                    Hist(features, CacheSet(fcache, cur, features, now)[cur]
                                       = SetData(features, now))]
    /\ wrote' = wrote + 1
    /\ pc' = "done"

(* service.py 91-92: await self.cache.set(track.id, None); return None *)
Negative ==
    /\ fcache' = CacheSet(fcache, cur, NoneDS, now)
    /\ result' = Res("none", NoneDS)
    /\ hist' = [hist EXCEPT ![cur] = NoHist]
    /\ wrote' = wrote + 1
    /\ pc' = "done"

(* get_features(track): the cache check and the branch that follows it *)
GetFeatures(t) ==
    /\ pc = "idle"
    /\ LET g == CacheGet(fcache[t], now) IN
        /\ fcache' = [fcache EXCEPT ![t] = g.file]
        /\ IF g.exc # "none"
           THEN /\ pc' = "done"
                /\ result' = Res("raise", NoneDS)
                /\ hist' = [hist EXCEPT ![t] = NoHist]
           ELSE IF g.ret # NoneDS
           THEN /\ pc' = "done"
                /\ result' = Res("value", g.ret)
                /\ hist' = [hist EXCEPT ![t] = Hist(g.ret, TRUE)]
           ELSE /\ pc' = AfterMiss(gsbEnabled, t)
                /\ result' = NoRes
                /\ hist' = hist
    /\ cur' = t
    /\ pre' = fcache[t]
    /\ prev' = hist[t]
    /\ UNCHANGED <<now, ticks, gsbEnabled, attempt, mbid, invoked, aRet, bRaised, wrote>>

(* an exception leaves get_features *)
Propagate ==
    /\ result' = Res("raise", NoneDS)
    /\ pc' = "done"
    /\ UNCHANGED <<fcache, wrote, hist>>

(* the chain ended (value | absent | raise): service.py 80-92 *)
EndChain(chain, features) ==
    /\ bRaised' = (chain = "raise")
    /\ CASE AfterChain(chain) = "store"     -> Store(features)
         [] AfterChain(chain) = "negative"  -> Negative
         [] AfterChain(chain) = "propagate" -> Propagate

(* one HTTP attempt of GetSongBPMClient.fetch *)
GsbAttempt(r) ==
    /\ pc = "source_a"
    /\ invoked' = invoked \cup {"gsb"}
    /\ LET step == ClientStep(r.o, attempt + 1) IN
        IF step = "retry"
        THEN /\ attempt' = attempt + 1
             /\ UNCHANGED <<fcache, pc, result, aRet, wrote, hist>>
        ELSE /\ attempt' = 0
             /\ aRet' = Res(step, IF step = "value"
                                  THEN DS("getsongbpm", r.key, r.id, now)
                                  ELSE NoneDS)
             /\ CASE AfterSourceA(step) = "store" ->
                        Store(DS("getsongbpm", r.key, r.id, now))
                  [] AfterSourceA(step) = "chain" ->
                        /\ pc' = FirstB(cur)
                        /\ UNCHANGED <<fcache, result, wrote, hist>>
                  [] AfterSourceA(step) = "propagate" -> Propagate
    /\ UNCHANGED <<now, ticks, gsbEnabled, cur, mbid, pre, prev, bRaised>>

(* one HTTP attempt of MusicBrainzClient.lookup_mbid_by_isrc *)
IsrcAttempt(r) ==
    /\ pc = "isrc"
    /\ invoked' = invoked \cup {"isrc"}
    /\ LET step == ClientStep(r.o, attempt + 1)
           nx   == AfterIsrc(step, r.id) IN
        IF step = "retry"
        THEN /\ attempt' = attempt + 1
             /\ UNCHANGED <<fcache, pc, result, bRaised, wrote, hist, mbid>>
        ELSE /\ attempt' = 0
             /\ IF nx = "raise"
                THEN EndChain("raise", NoneDS) /\ mbid' = mbid
                ELSE /\ pc' = nx
                     /\ mbid' = IF step = "value" THEN r.id ELSE NoId
                     /\ UNCHANGED <<fcache, result, bRaised, wrote, hist>>
    /\ UNCHANGED <<now, ticks, gsbEnabled, cur, pre, prev, aRet>>

(* one HTTP attempt of MusicBrainzClient.fuzzy_search_mbid *)
FuzzyAttempt(r) ==
    /\ pc = "fuzzy"
    /\ invoked' = invoked \cup {"fuzzy"}
    /\ LET step == ClientStep(r.o, attempt + 1)
           nx   == AfterFuzzy(step, r.id) IN
        IF step = "retry"
        THEN /\ attempt' = attempt + 1
             /\ UNCHANGED <<fcache, pc, result, bRaised, wrote, hist, mbid>>
        ELSE /\ attempt' = 0
             /\ IF nx = "ab"
                THEN /\ pc' = "ab"
                     /\ mbid' = r.id
                     /\ UNCHANGED <<fcache, result, bRaised, wrote, hist>>
                ELSE EndChain(nx, NoneDS) /\ mbid' = mbid
    /\ UNCHANGED <<now, ticks, gsbEnabled, cur, pre, prev, aRet>>

(* one HTTP attempt of AcousticBrainzClient.fetch(mbid) *)
AbAttempt(r) ==
    /\ pc = "ab"
    /\ invoked' = invoked \cup {"ab"}
    /\ LET step == ClientStep(r.o, attempt + 1) IN
        IF step = "retry"
        THEN /\ attempt' = attempt + 1
             /\ UNCHANGED <<fcache, pc, result, bRaised, wrote, hist>>
        ELSE /\ attempt' = 0
             /\ EndChain(AfterAb(step), DS("acousticbrainz", r.key, mbid, now))
    /\ UNCHANGED <<now, ticks, gsbEnabled, cur, mbid, pre, prev, aRet>>

(* the caller has taken the result; the service is ready for the next call *)
Return ==
    /\ pc = "done"
    /\ pc' = "idle"
    /\ cur' = "t1"
    /\ mbid' = NoId
    /\ result' = NoRes
    /\ pre' = NoFile
    /\ prev' = NoHist
    /\ invoked' = {}
    /\ aRet' = Res("notcalled", NoneDS)
    /\ bRaised' = FALSE
    /\ wrote' = 0
    /\ UNCHANGED <<now, ticks, gsbEnabled, fcache, attempt, hist>>

(* FeatureCache.clear(track_id), between two lookups *)
Clear(arg) ==
    /\ pc = "idle"
    /\ fcache' = CacheClear(fcache, arg)
    /\ hist' = [t \in TrackIds |->
                    IF fcache'[t] = fcache[t] /\ fcache[t] # NoFile
                    THEN hist[t] ELSE NoHist]
    /\ UNCHANGED <<now, ticks, gsbEnabled, pc, cur, attempt, mbid, result, pre, prev,
                   invoked, aRet, bRaised, wrote>>

(* a cache file damaged from outside the program (truncated write, edit):   *)
(* one that get deletes and one that makes get raise                        *)
DamagedFiles ==
    { File("badjson", FALSE, "missing", 0, "none", NoKey, NoId),
      File("nonobj", FALSE, "missing", 0, "none", NoKey, NoId) }

Corrupt(t, f) ==
    /\ pc = "idle"
    /\ WritablePath(t)
    /\ fcache' = [fcache EXCEPT ![t] = f]
    /\ hist' = [hist EXCEPT ![t] = NoHist]
    /\ UNCHANGED <<now, ticks, gsbEnabled, pc, cur, attempt, mbid, result, pre, prev,
                   invoked, aRet, bRaised, wrote>>

(* the clock advances between two lookups *)
Tick(d) ==
    /\ pc = "idle"
    /\ ticks < MaxTicks
    /\ now' = now + d
    /\ ticks' = ticks + 1
    /\ UNCHANGED <<gsbEnabled, fcache, pc, cur, attempt, mbid, result, pre, prev,
                   invoked, aRet, bRaised, wrote, hist>>

----------------------------------------------------------------------------
(* One source-client call: the decorated coroutine, attempt by attempt.     *)

ClientOps == {"gsb", "isrc", "fuzzy", "ab"}

CInit ==
    /\ cOp = "none"
    /\ cLog = <<>>
    /\ cRet = "running"

(* fetch / lookup_mbid_by_isrc / fuzzy_search_mbid is called *)
ClientCall(op) ==
    /\ cOp = "none"
    /\ cOp' = op
    /\ UNCHANGED <<cLog, cRet>>

(* one HTTP attempt inside the call *)
ClientAttempt(o) ==
    /\ cOp # "none"
    /\ cRet = "running"
    /\ cLog' = Append(cLog, o)
    /\ LET step == ClientStep(o, Len(cLog) + 1) IN
        cRet' = IF step = "retry" THEN "running" ELSE step
    /\ UNCHANGED cOp

----------------------------------------------------------------------------
(* FeatureCache.get applied to one file at one moment                       *)

ReadDays == {0, TTLDays - 1, TTLDays, TTLDays + 1}

StoredFiles ==
    { File("badjson", FALSE, "missing", 0, "none", NoKey, NoId),
      File("nonobj", FALSE, "missing", 0, "none", NoKey, NoId) }
    \cup { File("obj", nf, ra, 0, "getsongbpm", key, "g1") :
              nf \in BOOLEAN,
              ra \in {"missing", "num", "badstr", "naive", "aware"},
              key \in {NoKey, KeyMin, KeyMax, KeyMax + 1} }

GInit ==
    /\ gFile \in StoredFiles
    /\ gNow \in ReadDays
    /\ gOut = GetOut(NoneDS, "pending", NoFile)

CacheGetCall ==
    /\ gOut.exc = "pending"
    /\ gOut' = CacheGet(gFile, gNow)
    /\ UNCHANGED <<gFile, gNow>>

----------------------------------------------------------------------------
(* AudioFeatureAnalyzer (audio_analyzer.py)                                 *)

AnalyzerVersion == "1.0.0"
OldVersion == "0.9.0"
NoVersion == "none"      \* the entry has no "analyzer_version" key

ATracks == {"t1", "t2"}
(* preview_url arguments; "NONE" stands for None *)
Urls == {"", "NONE", "u1", "u2"}
(* audio a preview URL can deliver; "bad" does not decode *)
Clips == {"c1", "c2", "bad"}

(* Analysis Cache files: nofile | badjson | nonobj | obj; an object carries *)
(* its version tag, track id, preview url and the features, which are      *)
(* named after the audio they were computed from.                           *)
AFile(kind, ver, track, url, feat) ==
    [kind |-> kind, ver |-> ver, track |-> track, url |-> url, feat |-> feat]
NoAFile == AFile("nofile", NoVersion, "t1", "", "none")

(* entries an earlier run, or an earlier release, can have left behind *)
LeftBehind(t) ==
    { NoAFile,
      AFile("badjson", NoVersion, "t1", "", "none"),
      AFile("nonobj", NoVersion, "t1", "", "none"),
      AFile("obj", NoVersion, t, "u1", "c1"),
      AFile("obj", OldVersion, t, "u1", "c1"),
      AFile("obj", AnalyzerVersion, t, "u1", "c1") }

ARes(tag, val) == [tag |-> tag, val |-> val]
NoARes == ARes("pending", NoAFile)

(* a version test that only asks for the tag to be there *)
VersionPresent(data) == data.ver # NoVersion

(* data.get("analyzer_version") == self.ANALYZER_VERSION *)
VersionMatches(data) == data.ver = AnalyzerVersion

(* a cache check that never finds a usable entry *)
ACacheCheckNoHit(f) ==
    CASE f.kind = "nonobj" -> "raise"
      [] OTHER             -> "miss"

(* the cache check of analyze_preview (lines 95-107): hit | miss | raise *)
ACacheCheck(f) ==
    CASE f.kind = "nofile"  -> "miss"
      [] f.kind = "badjson" -> "miss"     \* json.JSONDecodeError is caught
      [] f.kind = "nonobj"  -> "raise"    \* AttributeError: no .get
      [] VersionMatches(f)  -> "hit"
      [] OTHER              -> "miss"

(* a guard that lets every preview_url through *)
NoPreviewNever(url) == FALSE

(* not preview_url (line 92) *)
NoPreview(url) == url \in {"", "NONE"}

(* requests.get / raise_for_status can fail with these; each is a           *)
(* requests.RequestException                                                *)
DownloadFailures == {"timeout", "connerror", "httperror"}

(* a handler that reports a failed download as a processing failure *)
DownloadEffectAsProcessing(got) ==
    IF got \in DownloadFailures THEN "AudioProcessingError" ELSE "content"

(* lines 111-121: except requests.RequestException -> PreviewDownloadError *)
DownloadEffect(got) ==
    IF got \in DownloadFailures THEN "PreviewDownloadError" ELSE "content"

(* an analyzer whose output also depends on the track id of the call *)
ExtractFeaturesByTrack(clip) ==
    IF clip = "bad" THEN "fail" ELSE IF aTrack = "t2" THEN "c1" ELSE clip

(* clips that decode *)
Decodable == Clips \ {"bad"}

(* _extract_features on the decoded audio; "fail" when librosa raises *)
ExtractFeatures(clip) == IF clip = "bad" THEN "fail" ELSE clip

(* the features with the metadata added (lines 134-136) *)
Tagged(feat, t, url) == AFile("obj", AnalyzerVersion, t, url, feat)

(* How the cache write (lines 139-144) can end:                             *)
(*   ok        - the entry is written                                       *)
(*   oserror   - open() fails with an OSError (IOError): caught and logged  *)
(*   typeerror - json.dump meets a value it cannot serialise (energy is a   *)
(*               numpy.float32 when the installed numpy keeps float32 in    *)
(*               `energy / max_rms`); the file, already opened for writing, *)
(*               is left cut off and the TypeError is no IOError            *)
WriteOutcomes == {"ok", "oserror", "typeerror"}

(* a cache file cut off in the middle of the document *)
CutOff == AFile("badjson", NoVersion, "t1", "", "none")

(* the cache directory after the write *)
ACacheWrite(files, t, data, w) ==
    CASE w = "ok"        -> [files EXCEPT ![t] = data]
      [] w = "oserror"   -> files
      [] w = "typeerror" -> [files EXCEPT ![t] = CutOff]

(* what analyze_preview does after the write: the inner handler catches     *)
(* IOError only, the outer `except Exception` (148-151) takes the rest      *)
AfterWrite(w) ==
    CASE w = "ok"        -> "return"
      [] w = "oserror"   -> "return"
      [] w = "typeerror" -> "AudioProcessingError"

(* a catalog client that drops the value the analyzer returned *)
GetTrackAudioFeaturesDropsValue(res) ==
    IF res.tag \in {"PreviewDownloadError", "AudioProcessingError"}
    THEN ARes("RuntimeError", NoAFile)
    ELSE ARes("none", NoAFile)

(* SpotifyClient.get_track_audio_features around analyze_preview:           *)
(* `except AudioAnalysisError` re-raises as RuntimeError, everything else    *)
(* passes through                                                           *)
GetTrackAudioFeatures(res) ==
    IF res.tag \in {"PreviewDownloadError", "AudioProcessingError"}
    THEN ARes("RuntimeError", NoAFile)
    ELSE res

AInit ==
    /\ acache \in [ATracks -> UNION {LeftBehind(t) : t \in ATracks}]
    /\ \A t \in ATracks : acache[t] \in LeftBehind(t)
    /\ apc = "idle"
    /\ aUrl = ""
    /\ aTrack = "t1"
    /\ aClip = "none"
    /\ aRes = NoARes
    /\ aPre = NoAFile
    /\ aDown = 0
    /\ aRuns = 0
    /\ aTmp = "none"
    /\ tmpFiles = 0
    /\ aSeen = [c \in Decodable |-> "none"]
    /\ aAgain = FALSE

(* analyze_preview(preview_url, track_id) up to the download *)
AnalyzePreview(url, t) ==
    /\ apc = "idle"
    /\ tmpFiles < MaxTmpFiles
    /\ aUrl' = url
    /\ aTrack' = t
    /\ aPre' = acache[t]
    /\ IF NoPreview(url)
       THEN /\ apc' = "done"
            /\ aRes' = ARes("none", NoAFile)
            /\ aDown' = 0
       ELSE CASE ACacheCheck(acache[t]) = "hit" ->
                    /\ apc' = "done"
                    /\ aRes' = ARes("value", acache[t])
                    /\ aDown' = 0
              [] ACacheCheck(acache[t]) = "raise" ->
                    /\ apc' = "done"
                    /\ aRes' = ARes("AttributeError", NoAFile)
                    /\ aDown' = 0
              [] ACacheCheck(acache[t]) = "miss" ->
                    /\ apc' = "download"
                    /\ aRes' = NoARes
                    /\ aDown' = 1
    /\ UNCHANGED <<acache, aClip, aRuns, aTmp, tmpFiles, aSeen, aAgain>>

(* requests.get in the thread pool ends; the bytes go to a temporary file   *)
(* (lines 111-126).  got: a failure or the audio; tmpOk: tmp_file.write     *)
(* succeeded.                                                               *)
DownloadDone(got, tmpOk) ==
    /\ apc = "download"
    /\ aClip' = got
    /\ IF DownloadEffect(got) # "content"
       THEN /\ apc' = "done"
            /\ aRes' = ARes(DownloadEffect(got), NoAFile)
            /\ UNCHANGED <<aRuns, aTmp, tmpFiles>>
       ELSE IF ~tmpOk
       THEN /\ apc' = "done"
            /\ aRes' = ARes("OSError", NoAFile)
            /\ aTmp' = "present"             \* delete=False: the file stays
            /\ tmpFiles' = tmpFiles + 1
            /\ UNCHANGED aRuns
       ELSE /\ apc' = "analyze"
            /\ aRuns' = 1
            /\ aTmp' = "present"
            /\ tmpFiles' = tmpFiles + 1
            /\ UNCHANGED aRes
    /\ UNCHANGED <<acache, aUrl, aTrack, aPre, aDown, aSeen, aAgain>>

(* _extract_features ends; metadata, cache write, cleanup (lines 128-158).  *)
(* w: how the cache write ends.                                             *)
AnalysisDone(w) ==
    /\ apc = "analyze"
    /\ apc' = "done"
    /\ aTmp' = "deleted"
    /\ tmpFiles' = tmpFiles - 1
    /\ IF ExtractFeatures(aClip) = "fail"
       THEN /\ aRes' = ARes("AudioProcessingError", NoAFile)
            /\ UNCHANGED <<acache, aSeen, aAgain>>
       ELSE /\ aSeen' = [aSeen EXCEPT ![aClip] =
                             IF @ = "none" THEN ExtractFeatures(aClip) ELSE @]
            /\ aAgain' = (aSeen[aClip] # "none")
            /\ acache' = ACacheWrite(acache, aTrack,
                             Tagged(ExtractFeatures(aClip), aTrack, aUrl), w)
            /\ aRes' = IF AfterWrite(w) = "return"
                       THEN ARes("value", Tagged(ExtractFeatures(aClip), aTrack, aUrl))
                       ELSE ARes(AfterWrite(w), NoAFile)
    /\ UNCHANGED <<aUrl, aTrack, aClip, aPre, aDown, aRuns>>

(* the task awaiting analyze_preview is cancelled while the call waits for  *)
(* asyncio.to_thread: CancelledError is no Exception, so only the `finally` *)
(* of the analysis block runs                                               *)
Cancel ==
    /\ apc \in {"download", "analyze"}
    /\ apc' = "done"
    /\ aRes' = ARes("CancelledError", NoAFile)
    /\ IF apc = "analyze"
       THEN /\ aTmp' = "deleted"
            /\ tmpFiles' = tmpFiles - 1
       ELSE UNCHANGED <<aTmp, tmpFiles>>
    /\ UNCHANGED <<acache, aUrl, aTrack, aClip, aPre, aDown, aRuns, aSeen, aAgain>>

(* the caller has taken the result *)
AReturn ==
    /\ apc = "done"
    /\ apc' = "idle"
    /\ aUrl' = ""
    /\ aTrack' = "t1"
    /\ aClip' = "none"
    /\ aRes' = NoARes
    /\ aPre' = NoAFile
    /\ aDown' = 0
    /\ aRuns' = 0
    /\ aTmp' = "none"
    /\ aAgain' = FALSE
    /\ UNCHANGED <<acache, tmpFiles, aSeen>>

----------------------------------------------------------------------------
(* MusicBrainzClient.fuzzy_search_mbid: which recording of the response is  *)
(* returned (musicbrainz.py 134-147, 161-192).  A recording is modelled by  *)
(* its "length" in ms; its id is its position in the list.                  *)

ToleranceMs == 5000
NoLength == 0            \* "length" is missing, null or 0: `not mb_duration`
Infinity == 1000000000   \* float('inf')
TrackMs == 200000

(* duration_ms of the track; 0 is falsy like None *)
Targets == {0, TrackMs}

Lengths ==
    {NoLength, TrackMs, TrackMs - 2000, TrackMs + 2000, TrackMs + 4999,
     TrackMs + 5000, TrackMs + 5001, TrackMs + 6000}

RecordingLists == UNION {[1..n -> Lengths] : n \in 0..MaxRecordings}

Abs(x) == IF x < 0 THEN -x ELSE x

(* a test that takes the first recording within the tolerance *)
CloserFirstFit(diff, minDiff) == minDiff = Infinity /\ diff <= ToleranceMs

(* diff < min_diff and diff <= tolerance_ms *)
Closer(diff, minDiff) == diff < minDiff /\ diff <= ToleranceMs

(* the loop of _find_best_duration_match from position i on; best = 0 is None *)
RECURSIVE BestLoop(_, _, _, _, _)
BestLoop(recs, i, target, best, minDiff) ==
    IF i > Len(recs) THEN best
    ELSE IF recs[i] = NoLength
    THEN BestLoop(recs, i + 1, target, best, minDiff)
    ELSE IF Closer(Abs(recs[i] - target), minDiff)
    THEN BestLoop(recs, i + 1, target, i, Abs(recs[i] - target))
    ELSE BestLoop(recs, i + 1, target, best, minDiff)

FindBestDurationMatch(recs, target) == BestLoop(recs, 1, target, 0, Infinity)

(* fuzzy_search_mbid once the response is parsed; 0 stands for None *)
FuzzySelect(recs, target) ==
    IF recs = <<>> THEN 0
    ELSE IF target # 0 /\ FindBestDurationMatch(recs, target) # 0
    THEN FindBestDurationMatch(recs, target)
    ELSE 1

Selected(done, pos) == [done |-> done, pos |-> pos]

MInit ==
    /\ mRecs \in RecordingLists
    /\ mTarget \in Targets
    /\ mOut = Selected(FALSE, 0)

FuzzySelectCall ==
    /\ ~mOut.done
    /\ mOut' = Selected(TRUE, FuzzySelect(mRecs, mTarget))
    /\ UNCHANGED <<mRecs, mTarget>>

----------------------------------------------------------------------------
(* _extract_features, key and mode (audio_analyzer.py 184-198)              *)

PitchClasses == 0..11

(* chroma_sum vectors: energy at a pitch class p and at the classes 4 and 3 *)
(* semitones above it, nothing elsewhere                                    *)
ChromaSums ==
    { [i \in PitchClasses |->
          IF i = p THEN a
          ELSE IF i = (p + 4) % 12 THEN b
          ELSE IF i = (p + 3) % 12 THEN c
          ELSE 0] :
        p \in PitchClasses, a \in 0..MaxEnergy, b \in 0..MaxEnergy, c \in 0..MaxEnergy }

(* int(np.argmax(chroma_sum)): the first position of the maximum *)
ArgMax(ch) ==
    CHOOSE k \in PitchClasses :
        /\ \A j \in PitchClasses : ch[j] <= ch[k]
        /\ \A j \in PitchClasses : j < k => ch[j] < ch[k]

(* mode = 1 if major_strength > minor_strength else 0 *)
DetectMode(ch, key) ==
    IF ch[(key + 4) % 12] > ch[(key + 3) % 12] THEN 1 ELSE 0

KeyMode(done, key, mode) == [done |-> done, key |-> key, mode |-> mode]

KInit ==
    /\ kChroma \in ChromaSums
    /\ kOut = KeyMode(FALSE, 0, 0)

ExtractKeyMode ==
    /\ ~kOut.done
    /\ kOut' = KeyMode(TRUE, ArgMax(kChroma), DetectMode(kChroma, ArgMax(kChroma)))
    /\ UNCHANGED kChroma

----------------------------------------------------------------------------
(* Two get_features calls for one track on the same event loop.  Nothing    *)
(* guards the cache (service.py 62-92 takes no lock); FeatureCache.get and  *)
(* set contain no await, so the second call touches the shared cache at two *)
(* moments only: its cache check and its final cache.set.  Between them it  *)
(* runs its own waterfall against the sources, whose answer to it is        *)
(* independent of the answer they give the first call.                      *)

OInit ==
    /\ oPc = "idle"
    /\ oRes = NoRes

(* the second call starts while the first is in flight: its cache check *)
OtherGetFeatures ==
    /\ pc # "idle"
    /\ oPc = "idle"
    /\ LET g == CacheGet(fcache[cur], now) IN
        /\ fcache' = [fcache EXCEPT ![cur] = g.file]
        /\ IF g.ret # NoneDS
           THEN oPc' = "done" /\ oRes' = Res("cached", g.ret)
           ELSE oPc' = "run" /\ oRes' = NoRes
    /\ UNCHANGED <<now, ticks, gsbEnabled, pc, cur, attempt, mbid, result, pre, prev,
                   invoked, aRet, bRaised, wrote, hist>>

(* the second call's waterfall ends: a source answered it with r, or none  *)
(* did (r.o # "ok"); service.py 74-75, 84-85, 91-92                         *)
OtherFinish(r) ==
    /\ oPc = "run"
    /\ oPc' = "done"
    /\ IF r.o = "ok"
       THEN /\ oRes' = Res("value", DS("acousticbrainz", r.key, r.id, now))
            /\ fcache' = CacheSet(fcache, cur, DS("acousticbrainz", r.key, r.id, now), now)
       ELSE /\ oRes' = Res("none", NoneDS)
            /\ fcache' = CacheSet(fcache, cur, NoneDS, now)
    /\ UNCHANGED <<now, ticks, gsbEnabled, pc, cur, attempt, mbid, result, pre, prev,
                   invoked, aRet, bRaised, wrote, hist>>

----------------------------------------------------------------------------
(* SpotifyClient.get_track_audio_features (spotify_client.py 593-645)       *)

(* what self.sp.track(track_id) can do: raise spotipy.SpotifyException,    *)
(* raise something else (a connection error of requests), or return a      *)
(* track whose preview_url is None ("NONE"), empty, or a URL                *)
CatalogAnswers == {"SpotifyException", "ConnectionError", "NONE", "", "u1", "u2"}

(* how analyze_preview can end for a non-empty URL *)
AnalyzerOutcomes(url, t) ==
    { ARes("value", Tagged(c, t, url)) : c \in Decodable }
    \cup
    { ARes("PreviewDownloadError", NoAFile),
      ARes("AudioProcessingError", NoAFile),
      ARes("OSError", NoAFile) }

TInit ==
    /\ tAuth = FALSE
    /\ tHasAnalyzer \in BOOLEAN
    /\ tPc = "idle"
    /\ tId = "t1"
    /\ tAns = "none"
    /\ tLookups = <<>>
    /\ tCalls = <<>>
    /\ tGot = NoARes
    /\ tRes = NoARes
    /\ tServed = 0

(* SpotifyClient.authenticate *)
Authenticate ==
    /\ tPc = "idle"
    /\ ~tAuth
    /\ tAuth' = TRUE
    /\ UNCHANGED <<tHasAnalyzer, tPc, tId, tAns, tLookups, tCalls, tGot, tRes, tServed>>

(* get_track_audio_features(track_id) up to the await of analyze_preview;   *)
(* ans is the catalog's answer to the lookup, if one is made                *)
GetTrackAudioFeaturesCall(t, ans) ==
    /\ tPc = "idle"
    /\ tServed < MaxCalls
    /\ tId' = t
    /\ IF ~tHasAnalyzer \/ ~tAuth
       THEN /\ tPc' = "done"
            /\ tRes' = ARes("RuntimeError", NoAFile)
            /\ UNCHANGED <<tAns, tLookups, tCalls>>
       ELSE /\ tLookups' = Append(tLookups, t)
            /\ tAns' = ans
            /\ CASE ans = "SpotifyException" ->
                        /\ tPc' = "done"
                        /\ tRes' = ARes("RuntimeError", NoAFile)
                        /\ UNCHANGED tCalls
                 [] ans = "ConnectionError" ->
                        /\ tPc' = "done"
                        /\ tRes' = ARes("ConnectionError", NoAFile)
                        /\ UNCHANGED tCalls
                 [] ans \notin {"SpotifyException", "ConnectionError"} /\ NoPreview(ans) ->
                        /\ tPc' = "done"
                        /\ tRes' = ARes("none", NoAFile)
                        /\ UNCHANGED tCalls
                 [] OTHER ->
                        /\ tPc' = "analyze"
                        /\ tCalls' = Append(tCalls, <<ans, t>>)
                        /\ UNCHANGED tRes
    /\ UNCHANGED <<tAuth, tHasAnalyzer, tGot, tServed>>

(* the awaited analyze_preview ends with res *)
AnalyzePreviewEnds(res) ==
    /\ tPc = "analyze"
    /\ res \in AnalyzerOutcomes(tAns, tId)
    /\ tPc' = "done"
    /\ tGot' = res
    /\ tRes' = GetTrackAudioFeatures(res)
    /\ UNCHANGED <<tAuth, tHasAnalyzer, tId, tAns, tLookups, tCalls, tServed>>

(* the caller has taken the result *)
TReturn ==
    /\ tPc = "done"
    /\ tPc' = "idle"
    /\ tId' = "t1"
    /\ tAns' = "none"
    /\ tLookups' = <<>>
    /\ tCalls' = <<>>
    /\ tGot' = NoARes
    /\ tRes' = NoARes
    /\ tServed' = tServed + 1
    /\ UNCHANGED <<tAuth, tHasAnalyzer>>

----------------------------------------------------------------------------
(* _extract_features, energy (audio_analyzer.py 200-207).  Amplitudes are   *)
(* integers in hundredths of full scale and the statistics are kept as      *)
(* exact fractions.                                                         *)

FullScale == 100
RmsLevels == {0, 1, 50, FullScale}
PercentileRank == 95

(* clips with a quiet level and a loud level: k loud frames among n, the    *)
(* loud ones first or last                                                  *)
RmsSequences ==
    { [i \in 1..n |-> IF (IF first THEN i <= k ELSE i > n - k) THEN hi ELSE lo] :
        n \in 1..MaxFrames, k \in 0..MaxFrames, lo \in RmsLevels, hi \in RmsLevels,
        first \in BOOLEAN }

RECURSIVE SumSeq(_)
SumSeq(q) == IF q = <<>> THEN 0 ELSE Head(q) + SumSeq(Tail(q))

(* the value at 0-based position i of the sorted sequence *)
NthSmallest(q, i) ==
    CHOOSE v \in {q[j] : j \in 1..Len(q)} :
        /\ Cardinality({j \in 1..Len(q) : q[j] < v}) <= i
        /\ Cardinality({j \in 1..Len(q) : q[j] <= v}) > i

(* np.percentile(rms, 95), linear interpolation, times 100 *)
Percentile95(q) ==
    LET pos   == PercentileRank * (Len(q) - 1)
        j     == pos \div 100
        f     == pos % 100
        lower == NthSmallest(q, j)
        upper == NthSmallest(q, IF j + 1 < Len(q) THEN j + 1 ELSE j)
    IN  100 * lower + f * (upper - lower)

Frac(done, num, den) == [done |-> done, num |-> num, den |-> den]

(* a normalisation without the upper clamp *)
NoClamp(num, den) == Frac(TRUE, num, den)

(* min(energy / max_rms, 1.0) *)
Min1(num, den) == IF num < den THEN Frac(TRUE, num, den) ELSE Frac(TRUE, 1, 1)

(* energy = float(np.mean(rms)); if max_rms > 0: energy = min(.., 1.0) *)
Energy(q) ==
    IF Percentile95(q) > 0
    THEN Min1(100 * SumSeq(q), Len(q) * Percentile95(q))
    ELSE Frac(TRUE, SumSeq(q), Len(q) * FullScale)

EInit ==
    /\ eRms \in RmsSequences
    /\ eOut = Frac(FALSE, 0, 1)

ExtractEnergy ==
    /\ ~eOut.done
    /\ eOut' = Energy(eRms)
    /\ UNCHANGED eRms

----------------------------------------------------------------------------
(* Building a Descriptor Set: AudioFeatures(...) in models.py, called by    *)
(* GetSongBPMClient._map_to_audio_features, by                              *)
(* AcousticBrainzClient._map_to_audio_features and by FeatureCache.get.     *)
(* Fields in [0,1] are integers in hundredths; tempo is in whole BPM.       *)

Unpopulated == 0 - 1000     \* None
Raises == 0 - 2000          \* the expression raised ValueError or TypeError

(* a JSON value: absent/null, a number, a string holding a number, or any   *)
(* other string                                                             *)
Raw(kind, n, s) == [kind |-> kind, n |-> n, s |-> s]
Unset == Raw("unset", 0, "")
Num(n) == Raw("num", n, "")
NumStr(n) == Raw("numstr", n, "")
Text(t) == Raw("text", 0, t)

(* bool(x) *)
Truthy(x) ==
    CASE x.kind = "unset"  -> FALSE
      [] x.kind = "num"    -> x.n # 0
      [] x.kind = "numstr" -> TRUE
      [] x.kind = "text"   -> x.s # ""

(* float(x), int(x) *)
Float(x) == IF x.kind \in {"num", "numstr"} THEN x.n ELSE Raises

(* key_map.get(name) *)
KeyMap(name) ==
    CASE name = "C"  -> 0
      [] name = "F#" -> 6
      [] name = "A"  -> 9
      [] name = "Bb" -> 10
      [] OTHER       -> Unpopulated

(* key_str.replace("m", "").strip() *)
StripM(name) ==
    CASE name = "Am"  -> "A"
      [] name = "F#m" -> "F#"
      [] name = "Bbm" -> "Bb"
      [] OTHER        -> name

(* "m" in key_str *)
HasM(name) == name \in {"Am", "F#m", "Bbm"}

(* _parse_key *)
ParseKey(name) == IF name = "" THEN Unpopulated ELSE KeyMap(StripM(name))

(* _parse_time_signature: int(numerator), None on ValueError *)
ParseTimeSignature(t) ==
    CASE t = "4/4" -> 4
      [] t = "3/4" -> 3
      [] t = "2/4" -> 2
      [] t = "9/8" -> 9
      [] OTHER     -> Unpopulated

Fields(tempo, key, mode, energy, danceability, acousticness, time_signature) ==
    [tempo |-> tempo, key |-> key, mode |-> mode, energy |-> energy,
     danceability |-> danceability, acousticness |-> acousticness,
     time_signature |-> time_signature]

NoFields ==
    Fields(Unpopulated, Unpopulated, Unpopulated, Unpopulated, Unpopulated,
           Unpopulated, Unpopulated)

FieldNames ==
    {"tempo", "key", "mode", "energy", "danceability", "acousticness", "time_signature"}

Built(done, tag, f) == [done |-> done, tag |-> tag, f |-> f]

(* a model without the Field constraints *)
Unconstrained(f) == TRUE

(* the Field constraints of AudioFeatures *)
FieldsValid(f) ==
    /\ f.tempo # Unpopulated => f.tempo > 0
    /\ f.key # Unpopulated => (f.key >= KeyMin /\ f.key <= KeyMax)
    /\ f.mode # Unpopulated => f.mode \in {0, 1}
    /\ \A u \in {"energy", "danceability", "acousticness"} :
            f[u] # Unpopulated => (f[u] >= 0 /\ f[u] <= 100)
    /\ f.time_signature # Unpopulated => (f.time_signature >= 3 /\ f.time_signature <= 7)

(* try: AudioFeatures(...) except (KeyError, ValueError, TypeError): None *)
AudioFeaturesOrNone(f) ==
    IF \E u \in FieldNames : f[u] = Raises THEN Built(TRUE, "absent", NoFields)
    ELSE IF ~FieldsValid(f) THEN Built(TRUE, "absent", NoFields)
    ELSE Built(TRUE, "value", f)

(* float(x) / 100.0 if x else None *)
Percent(x) == IF Truthy(x) THEN Float(x) ELSE Unpopulated

(* GetSongBPMClient._map_to_audio_features; key_of and time_sig are strings *)
GsbMap(p) ==
    AudioFeaturesOrNone(Fields(
        IF Truthy(p.tempo) THEN Float(p.tempo) ELSE Unpopulated,
        ParseKey(p.key.s),
        IF HasM(p.key.s) THEN 0 ELSE 1,
        Unpopulated,
        Percent(p.danceability),
        Percent(p.acousticness),
        IF p.time_signature.s = "" THEN Unpopulated ELSE ParseTimeSignature(p.time_signature.s)))

(* max(0.0, min(1.0, (loudness_db + 60) / 60)); str + int raises TypeError *)
LoudnessToEnergy(x) ==
    CASE x.kind = "unset" -> Unpopulated
      [] x.kind = "num"   ->
            LET e == ((x.n + 60) * 100) \div 60
            IN  IF e < 0 THEN 0 ELSE IF e > 100 THEN 100 ELSE e
      [] OTHER            -> Raises

(* AcousticBrainzClient._map_to_audio_features: bpm, key_key, key_scale,    *)
(* average_loudness                                                         *)
AbMap(p) ==
    AudioFeaturesOrNone(Fields(
        IF p.tempo.kind = "unset" THEN Unpopulated ELSE Float(p.tempo),
        CASE p.key.kind = "unset" -> Unpopulated
          [] p.key.kind = "num"   -> p.key.n
          [] OTHER                -> KeyMap(p.key.s),
        IF p.mode.kind = "unset" THEN Unpopulated
        ELSE IF p.mode.s = "major" THEN 1 ELSE 0,
        LoudnessToEnergy(p.energy),
        Unpopulated,
        Unpopulated,
        Unpopulated))

(* the value pydantic stores for a numeric field of a stored record *)
Coerce(x) == IF x.kind = "unset" THEN Unpopulated ELSE Float(x)

(* Literal[0, 1] accepts the numbers only *)
CoerceLiteral(x) ==
    CASE x.kind = "unset" -> Unpopulated
      [] x.kind = "num"   -> x.n
      [] OTHER            -> Raises

(* FeatureCache.get: AudioFeatures built from the stored keys; a ValueError  *)
(* unlinks the file and gives None                                          *)
CacheMap(p) ==
    AudioFeaturesOrNone(Fields(
        Coerce(p.tempo), Coerce(p.key), CoerceLiteral(p.mode), Coerce(p.energy),
        Coerce(p.danceability), Coerce(p.acousticness), Coerce(p.time_signature)))

Payload(tempo, key, mode, energy, danceability, acousticness, time_signature) ==
    Fields(tempo, key, mode, energy, danceability, acousticness, time_signature)

GsbPayloads ==
    { Payload(t, Text(k), Unset, Unset, d, a, Text(ts)) :
        t \in {Unset, Num(0), Num(120), NumStr(0), NumStr(120), NumStr(0 - 5), Text("fast")},
        k \in {"", "C", "Am", "F#m", "H"},
        d \in {Unset, NumStr(0), NumStr(64), NumStr(150)},
        a \in {Unset, NumStr(100), NumStr(0 - 1)},
        ts \in {"", "4/4", "3/4", "2/4", "9/8", "free"} }

AbPayloads ==
    { Payload(t, k, m, e, Unset, Unset, Unset) :
        t \in {Unset, Num(0), Num(120), Num(0 - 1), Text("fast")},
        k \in {Unset, Num(9), Num(12), Num(0 - 1), Text("Bb"), Text("H")},
        m \in {Unset, Text("major"), Text("minor")},
        e \in {Unset, Num(0 - 70), Num(0 - 30), Num(0), Num(10), NumStr(0 - 30)} }

CachePayloads ==
    { Payload(t, k, m, e, Unset, Unset, ts) :
        t \in {Unset, Num(120), Num(0), Text("fast")},
        k \in {Unset, Num(0), Num(11), Num(12)},
        m \in {Unset, Num(1), Num(2), NumStr(1)},
        e \in {Unset, Num(0), Num(100), Num(101), Num(0 - 1)},
        ts \in {Unset, Num(3), Num(7), Num(8), Num(2)} }

VInit ==
    /\ vSource \in {"getsongbpm", "acousticbrainz", "cache"}
    /\ vPayload \in CASE vSource = "getsongbpm"     -> GsbPayloads
                      [] vSource = "acousticbrainz" -> AbPayloads
                      [] vSource = "cache"          -> CachePayloads
    /\ vOut = Built(FALSE, "absent", NoFields)

GsbMapToAudioFeatures ==
    /\ vSource = "getsongbpm" /\ ~vOut.done
    /\ vOut' = GsbMap(vPayload)
    /\ UNCHANGED <<vSource, vPayload>>

AbMapToAudioFeatures ==
    /\ vSource = "acousticbrainz" /\ ~vOut.done
    /\ vOut' = AbMap(vPayload)
    /\ UNCHANGED <<vSource, vPayload>>

CacheGetBuilds ==
    /\ vSource = "cache" /\ ~vOut.done
    /\ vOut' = CacheMap(vPayload)
    /\ UNCHANGED <<vSource, vPayload>>

----------------------------------------------------------------------------
(* SpotifyClient._with_retry and add_tracks_to_playlist                     *)
(* (spotify_client.py 80-106, 143-177)                                      *)

BatchSize == 100
DefaultRetryAfter == 1
NoHeader == 0 - 1           \* the exception carries no Retry-After header
UriCounts == {0, 1, BatchSize, BatchSize + 1, 2 * BatchSize + 1}

(* one invocation of sp.playlist_add_items: it returns, or raises           *)
(* SpotifyException with status 429 (ra: its Retry-After header),           *)
(* SpotifyException with another status, or an exception of another class   *)
ApiOutcome(o, ra) == [o |-> o, ra |-> ra]
ApiOutcomes ==
    {ApiOutcome("ok", NoHeader), ApiOutcome("SpotifyException", NoHeader),
     ApiOutcome("ConnectionError", NoHeader)}
        \cup {ApiOutcome("429", ra) : ra \in {NoHeader, 0, 2}}

(* int(e.headers.get("Retry-After", 1)) *)
RetryAfter(ra) == IF ra = NoHeader THEN DefaultRetryAfter ELSE ra

Invocation(from, len, o, ra, slept) ==
    [from |-> from, len |-> len, o |-> o, ra |-> ra, slept |-> slept]
NotSlept == 0 - 1

(* len(track_uris[i:i + batch_size]) *)
BatchLen(n, i) == IF n - i < BatchSize THEN n - i ELSE BatchSize

AddResult(tag, added) == [tag |-> tag, added |-> added]

(* a wrapper that retries every failure of the first invocation *)
AfterFailureRetriesAll(tries, o) == IF tries = 0 THEN "retry" ELSE "raise"

(* _with_retry after fn raised: retry | raise *)
AfterFailure(tries, o) == IF tries = 0 /\ o = "429" THEN "retry" ELSE "raise"

RInit ==
    /\ rAuth \in BOOLEAN
    /\ rPc = "idle"
    /\ rN = 0
    /\ rI = 0
    /\ rTry = 0
    /\ rLog = <<>>
    /\ rAdded = 0
    /\ rRes = AddResult("pending", 0)

(* add_tracks_to_playlist(playlist_id, track_uris) up to the first batch *)
AddTracksToPlaylist(n) ==
    /\ rPc = "idle"
    /\ rN' = n
    /\ IF ~rAuth
       THEN rPc' = "done" /\ rRes' = AddResult("RuntimeError", 0)
       ELSE IF n = 0
       THEN rPc' = "done" /\ rRes' = AddResult("ok", 0)
       ELSE rPc' = "call" /\ rRes' = rRes
    /\ UNCHANGED <<rAuth, rI, rTry, rLog, rAdded>>

(* one invocation of fn inside _with_retry, and what follows it *)
PlaylistAddItems(out) ==
    /\ rPc = "call"
    /\ LET slept == IF rTry = 0 THEN NotSlept ELSE RetryAfter(rLog[Len(rLog)].ra)
           len   == BatchLen(rN, rI) IN
        /\ rLog' = Append(rLog, Invocation(rI, len, out.o, out.ra, slept))
        /\ IF out.o = "ok"
           THEN /\ rAdded' = rAdded + len
                /\ rI' = rI + BatchSize
                /\ rTry' = 0
                /\ IF rI + BatchSize < rN
                   THEN rPc' = "call" /\ rRes' = rRes
                   ELSE rPc' = "done" /\ rRes' = AddResult("ok", rAdded + len)
           ELSE IF AfterFailure(rTry, out.o) = "retry"
           THEN /\ rTry' = rTry + 1
                /\ UNCHANGED <<rPc, rI, rAdded, rRes>>
           ELSE /\ rPc' = "done"
                /\ rRes' = AddResult(IF out.o = "429" THEN "SpotifyException" ELSE out.o,
                                     rAdded)
                /\ UNCHANGED <<rI, rTry, rAdded>>
    /\ UNCHANGED <<rAuth, rN>>

----------------------------------------------------------------------------
(* FeatureCache.clear (cache.py 115-137) on a cache that holds entries      *)

ClearArgs == TrackIds \cup {"NONE", ""}

(* a track has no file, a Descriptor Set or a negative marker *)
ClearableFiles ==
    {NoFile, SetData(DS("getsongbpm", 5, "g1", 0), 0),
     SetData(DS("acousticbrainz", 5, "m1", 0), 0), SetData(NoneDS, 0)}

Cleared(done, files, got) == [done |-> done, files |-> files, got |-> got]

LInit ==
    /\ lFiles \in {f \in [TrackIds -> ClearableFiles] :
                        \A t \in TrackIds : ~WritablePath(t) => f[t] = NoFile}
    /\ lArg \in ClearArgs
    /\ lOut = Cleared(FALSE, lFiles, NoneDS)

(* clear(track_id), then get(track_id) for a track id *)
ClearCall ==
    /\ ~lOut.done
    /\ lOut' = Cleared(TRUE, CacheClear(lFiles, lArg),
                       IF lArg \in TrackIds
                       THEN CacheGet(CacheClear(lFiles, lArg)[lArg], 0).ret
                       ELSE NoneDS)
    /\ UNCHANGED <<lFiles, lArg>>

----------------------------------------------------------------------------
(* Specifications *)

(* the parts a specification leaves at rest *)
FQuiet == FInit /\ gsbEnabled
GQuiet ==
    /\ gFile = NoFile
    /\ gNow = 0
    /\ gOut = GetOut(NoneDS, "pending", NoFile)
AQuiet == AInit /\ \A t \in ATracks : acache[t] = NoAFile
MQuiet ==
    /\ mRecs = <<>>
    /\ mTarget = 0
    /\ mOut = Selected(FALSE, 0)
KQuiet ==
    /\ kChroma = [i \in PitchClasses |-> 0]
    /\ kOut = KeyMode(FALSE, 0, 0)
TQuiet == TInit /\ tHasAnalyzer
EQuiet ==
    /\ eRms = <<0>>
    /\ eOut = Frac(FALSE, 0, 1)
VQuiet ==
    /\ vSource = "cache"
    /\ vPayload = Payload(Unset, Unset, Unset, Unset, Unset, Unset, Unset)
    /\ vOut = Built(FALSE, "absent", NoFields)
RQuiet == RInit /\ rAuth
LQuiet ==
    /\ lFiles = [t \in TrackIds |-> NoFile]
    /\ lArg = "NONE"
    /\ lOut = Cleared(FALSE, lFiles, NoneDS)

FrameF == UNCHANGED <<cvars, gvars, avars, mvars, kvars, ovars, tvars, evars,
    vvars, rvars, lvars>>
FrameC == UNCHANGED <<fvars, gvars, avars, mvars, kvars, ovars, tvars, evars,
    vvars, rvars, lvars>>
FrameG == UNCHANGED <<fvars, cvars, avars, mvars, kvars, ovars, tvars, evars,
    vvars, rvars, lvars>>
FrameA == UNCHANGED <<fvars, cvars, gvars, mvars, kvars, ovars, tvars, evars,
    vvars, rvars, lvars>>
FrameM == UNCHANGED <<fvars, cvars, gvars, avars, kvars, ovars, tvars, evars,
    vvars, rvars, lvars>>
FrameK == UNCHANGED <<fvars, cvars, gvars, avars, mvars, ovars, tvars, evars,
    vvars, rvars, lvars>>
FramePF == UNCHANGED <<cvars, gvars, avars, mvars, kvars, ovars, tvars, evars,
    vvars, rvars, lvars>>
FramePO == UNCHANGED <<cvars, gvars, avars, mvars, kvars, tvars, evars, vvars,
    rvars, lvars>>
FrameT == UNCHANGED <<fvars, cvars, gvars, avars, mvars, kvars, ovars, evars,
    vvars, rvars, lvars>>
FrameE == UNCHANGED <<fvars, cvars, gvars, avars, mvars, kvars, ovars, tvars,
    vvars, rvars, lvars>>
FrameV == UNCHANGED <<fvars, cvars, gvars, avars, mvars, kvars, ovars, tvars,
    evars, rvars, lvars>>
FrameR == UNCHANGED <<fvars, cvars, gvars, avars, mvars, kvars, ovars, tvars,
    evars, vvars, lvars>>
FrameL == UNCHANGED <<fvars, cvars, gvars, avars, mvars, kvars, ovars, tvars,
    evars, vvars, rvars>>

InitF == FInit /\ CInit /\ GQuiet /\ AQuiet /\ MQuiet /\ KQuiet /\ OInit /\
    TQuiet /\ EQuiet /\ VQuiet /\ RQuiet /\ LQuiet
InitC == FQuiet /\ CInit /\ GQuiet /\ AQuiet /\ MQuiet /\ KQuiet /\ OInit /\
    TQuiet /\ EQuiet /\ VQuiet /\ RQuiet /\ LQuiet
InitG == FQuiet /\ CInit /\ GInit /\ AQuiet /\ MQuiet /\ KQuiet /\ OInit /\
    TQuiet /\ EQuiet /\ VQuiet /\ RQuiet /\ LQuiet
InitA == FQuiet /\ CInit /\ GQuiet /\ AInit /\ MQuiet /\ KQuiet /\ OInit /\
    TQuiet /\ EQuiet /\ VQuiet /\ RQuiet /\ LQuiet
InitM == FQuiet /\ CInit /\ GQuiet /\ AQuiet /\ MInit /\ KQuiet /\ OInit /\
    TQuiet /\ EQuiet /\ VQuiet /\ RQuiet /\ LQuiet
InitK == FQuiet /\ CInit /\ GQuiet /\ AQuiet /\ MQuiet /\ KInit /\ OInit /\
    TQuiet /\ EQuiet /\ VQuiet /\ RQuiet /\ LQuiet
InitP == FInit /\ CInit /\ GQuiet /\ AQuiet /\ MQuiet /\ KQuiet /\ OInit /\
    TQuiet /\ EQuiet /\ VQuiet /\ RQuiet /\ LQuiet
InitT == FQuiet /\ CInit /\ GQuiet /\ AQuiet /\ MQuiet /\ KQuiet /\ OInit /\
    TInit /\ EQuiet /\ VQuiet /\ RQuiet /\ LQuiet
InitE == FQuiet /\ CInit /\ GQuiet /\ AQuiet /\ MQuiet /\ KQuiet /\ OInit /\
    TQuiet /\ EInit /\ VQuiet /\ RQuiet /\ LQuiet
InitV == FQuiet /\ CInit /\ GQuiet /\ AQuiet /\ MQuiet /\ KQuiet /\ OInit /\
    TQuiet /\ EQuiet /\ VInit /\ RQuiet /\ LQuiet
InitR == FQuiet /\ CInit /\ GQuiet /\ AQuiet /\ MQuiet /\ KQuiet /\ OInit /\
    TQuiet /\ EQuiet /\ VQuiet /\ RInit /\ LQuiet
InitL == FQuiet /\ CInit /\ GQuiet /\ AQuiet /\ MQuiet /\ KQuiet /\ OInit /\
    TQuiet /\ EQuiet /\ VQuiet /\ RQuiet /\ LInit

NextF ==
    \/ \E t \in TrackIds : \E f \in DamagedFiles : Corrupt(t, f) /\ FrameF
    \/ \E t \in TrackIds : GetFeatures(t) /\ FrameF
    \/ \E r \in FeatureResponses : GsbAttempt(r) /\ FrameF
    \/ \E r \in IdResponses : IsrcAttempt(r) /\ FrameF
    \/ \E r \in IdResponses : FuzzyAttempt(r) /\ FrameF
    \/ \E r \in FeatureResponses : AbAttempt(r) /\ FrameF
    \/ Return /\ FrameF
    \/ \E a \in TrackIds \cup {"NONE"} : Clear(a) /\ FrameF
    \/ \E d \in TickSteps : Tick(d) /\ FrameF

NextC ==
    \/ \E op \in ClientOps : ClientCall(op) /\ FrameC
    \/ \E o \in Outcomes : ClientAttempt(o) /\ FrameC

NextG == CacheGetCall /\ FrameG

NextA ==
    \/ \E u \in Urls : \E t \in ATracks : AnalyzePreview(u, t) /\ FrameA
    \/ \E got \in Clips \cup DownloadFailures : \E ok \in BOOLEAN :
            DownloadDone(got, ok) /\ FrameA
    \/ \E w \in WriteOutcomes : AnalysisDone(w) /\ FrameA
    \/ Cancel /\ FrameA
    \/ AReturn /\ FrameA

NextM == FuzzySelectCall /\ FrameM

NextK == ExtractKeyMode /\ FrameK

NextP ==
    \/ \E t \in TrackIds : GetFeatures(t) /\ FramePF
    \/ \E r \in FeatureResponses : GsbAttempt(r) /\ FramePF
    \/ \E r \in IdResponses : IsrcAttempt(r) /\ FramePF
    \/ \E r \in IdResponses : FuzzyAttempt(r) /\ FramePF
    \/ \E r \in FeatureResponses : AbAttempt(r) /\ FramePF
    \/ OtherGetFeatures /\ FramePO
    \/ \E r \in FeatureResponses : OtherFinish(r) /\ FramePO

NextT ==
    \/ Authenticate /\ FrameT
    \/ \E t \in ATracks : \E ans \in CatalogAnswers :
            GetTrackAudioFeaturesCall(t, ans) /\ FrameT
    \/ \E res \in AnalyzerOutcomes(tAns, tId) : AnalyzePreviewEnds(res) /\ FrameT
    \/ TReturn /\ FrameT

NextE == ExtractEnergy /\ FrameE

NextV ==
    \/ GsbMapToAudioFeatures /\ FrameV
    \/ AbMapToAudioFeatures /\ FrameV
    \/ CacheGetBuilds /\ FrameV

NextR ==
    \/ \E n \in UriCounts : AddTracksToPlaylist(n) /\ FrameR
    \/ \E out \in ApiOutcomes : PlaylistAddItems(out) /\ FrameR

NextL == ClearCall /\ FrameL

(* the waterfall over the Feature Cache *)
SpecF == InitF /\ [][NextF]_vars
(* one source-client call *)
SpecC == InitC /\ [][NextC]_vars
(* one FeatureCache.get *)
SpecG == InitG /\ [][NextG]_vars
(* the preview analyzer over the Analysis Cache *)
SpecA == InitA /\ [][NextA]_vars
(* one candidate selection of the fuzzy search *)
SpecM == InitM /\ [][NextM]_vars
(* one key and mode detection *)
SpecK == InitK /\ [][NextK]_vars
(* two get_features calls for one track that overlap *)
SpecP == InitP /\ [][NextP]_vars
(* the catalog client's get_track_audio_features *)
SpecT == InitT /\ [][NextT]_vars
(* one energy computation *)
SpecE == InitE /\ [][NextE]_vars
(* one Descriptor Set built from a response or a stored record *)
SpecV == InitV /\ [][NextV]_vars
(* one add_tracks_to_playlist *)
SpecR == InitR /\ [][NextR]_vars
(* one FeatureCache.clear *)
SpecL == InitL /\ [][NextL]_vars

----------------------------------------------------------------------------
(* Properties of the waterfall, checked under SpecF *)

(* age of a timestamp at the time of the call, stated independently of the cache *)
WithinTTL(day) == now - day <= TTLDays
OlderThanTTL(day) == now - day > TTLDays

(* a well-formed entry as FeatureCache.set writes it *)
WrittenEntry(f) == f.kind = "obj" /\ f.ra = "naive" /\ ValidKey(f.key)
IsMarker(f) == WrittenEntry(f) /\ f.nf

(* C1: once a track resolved to absent and its negative marker was written, a later
   get_features call for the track within the TTL ends at the cache check: it
   invokes no source client and returns absent. *)
C1_NegativeCaching ==
    (pc # "idle" /\ IsMarker(pre) /\ WithinTTL(pre.rad))
        => (pc = "done" /\ invoked = {} /\ result = Res("none", NoneDS))

(* C2 as stated: after get_features returned a Descriptor Set for a track, a repeated
   call within the TTL returns the identical Descriptor Set and invokes no source
   client. *)
C2_IdempotenceAsStated ==
    (pc # "idle" /\ prev.ds # NoneDS /\ WithinTTL(prev.ds.ret))
        => (pc = "done" /\ invoked = {} /\ result = Res("value", prev.ds))

(* C2 amended: after get_features returned a Descriptor Set for a track and the
   Feature Cache stored it (the write did not fail), a repeated call within the TTL
   returns the identical Descriptor Set and invokes no source client. *)
C2_Idempotence ==
    (pc # "idle" /\ prev.ds # NoneDS /\ prev.stored /\ WithinTTL(prev.ds.ret))
        => (pc = "done" /\ invoked = {} /\ result = Res("value", prev.ds))

(* a repeated call, TTLDays after the first, answered from the cache *)
C2_Witness ==
    /\ pc = "done"
    /\ prev.ds # NoneDS /\ prev.stored
    /\ now - prev.ds.ret = TTLDays
    /\ result = Res("value", prev.ds)

(* C3: first success wins: when GetSongBPM returned a Descriptor Set, the call ends
   at once with exactly that value and no operation of the MusicBrainz /
   AcousticBrainz chain is invoked. *)
C3_FirstSuccessWins ==
    aRet.tag = "value"
        => (pc = "done" /\ invoked = {"gsb"} /\ result = Res("value", aRet.ds))

C3_Witness ==
    pc = "done" /\ aRet.tag = "value" /\ result.ds.src = "getsongbpm"

(* C4: no exception of a source client leaves get_features: after GetSongBPM raised,
   the chain is still attempted, and after the chain raised the call returns
   absent. *)
C4_NoSourceFailureAborts ==
    /\ (aRet.tag = "reraise" \/ bRaised) => result.tag # "raise"
    /\ aRet.tag = "reraise" =>
          /\ pc \in {"isrc", "fuzzy", "ab", "done"}
          /\ pc = "done" => invoked \cap {"isrc", "fuzzy"} # {}
    /\ bRaised => (pc = "done" /\ result = Res("none", NoneDS))

(* both GetSongBPM and the chain raised in one call *)
C4_Witness ==
    pc = "done" /\ aRet.tag = "reraise" /\ bRaised /\ "ab" \in invoked

(* C5: when the cache holds no valid entry for the track and no source yields a
   result, get_features returns absent and a negative marker for the track is in
   the Feature Cache afterwards. *)
C5_AbsentLeavesMarker ==
    (pc = "done" /\ result.tag # "value"
        /\ ~(WrittenEntry(pre) /\ ~pre.nf /\ WithinTTL(pre.rad)))
        => (result = Res("none", NoneDS) /\ IsMarker(fcache[cur]))

(* C6: an entry, positive or negative, older than the TTL is read as absent and
   deleted by the read, and the get_features call queries the sources again
   instead of using it. *)
C6_TTLExpiry ==
    (pc # "idle" /\ pre.kind = "obj" /\ pre.ra = "naive" /\ OlderThanTTL(pre.rad))
        => /\ pc # "done" => fcache[cur] = NoFile
           /\ pc = "done" =>
                /\ invoked # {}
                /\ result.tag # "raise"
                /\ result.tag = "value" => result.ds.ret = now

(* a positive entry 31 days old was replaced by a fresh result *)
C6_Witness ==
    /\ pc = "done"
    /\ pre.kind = "obj" /\ ~pre.nf /\ now - pre.rad = TTLDays + 1
    /\ result.tag = "value"

----------------------------------------------------------------------------
(* Properties of the preview analyzer, checked under SpecA *)

(* C7: an Analysis Cache entry whose version tag is not the current
   ANALYZER_VERSION is never returned: with a non-empty clip URL the call starts
   the download, and a value it returns comes from a run of the analyzer and
   carries the current version tag. *)
C7_StaleVersionNeverReused ==
    (apc # "idle" /\ aUrl \notin {"", "NONE"} /\ aPre.kind = "obj"
        /\ aPre.ver # AnalyzerVersion)
        => /\ aDown = 1
           /\ aRes.tag = "value" =>
                /\ aRuns = 1
                /\ aRes.val.ver = AnalyzerVersion
                /\ aRes.val # aPre

(* an entry tagged 0.9.0 was there and the call returned a fresh analysis *)
C7_Witness ==
    /\ apc = "done"
    /\ aPre.kind = "obj" /\ aPre.ver = OldVersion
    /\ aRes.tag = "value" /\ aRes.val.ver = AnalyzerVersion

----------------------------------------------------------------------------
(* Properties of FeatureCache.get, checked under SpecG *)

(* a stored record that is no well-formed entry *)
NotWellFormed(f) ==
    \/ f.kind \in {"badjson", "nonobj"}
    \/ f.kind = "obj" /\ f.ra \in {"missing", "num", "badstr"}
    \/ f.kind = "obj" /\ f.ra = "naive" /\ ~f.nf
          /\ ~(f.key = NoKey \/ f.key \in KeyMin..KeyMax)

(* C8: for every stored record that is no well-formed entry, get returns absent
   without raising and the record is deleted. *)
C8_CorruptReadsAbsent ==
    (gOut.exc # "pending" /\ NotWellFormed(gFile))
        => gOut = GetOut(NoneDS, "none", NoFile)

----------------------------------------------------------------------------
(* Properties of a source-client call, checked under SpecC *)

(* C9: a 404 response is terminal: the attempt that receives it is the last one of
   the call (none follows it) and the call returns absent, not an error; a call
   whose first response is 404 makes exactly one attempt. *)
C9_NotFoundTerminal ==
    \A i \in 1..Len(cLog) :
        cLog[i] = "s404" => (i = Len(cLog) /\ cRet = "none")

(* a fuzzy search answered 404 at once *)
C9_Witness ==
    cOp = "fuzzy" /\ cLog = <<"s404">> /\ cRet = "none"

(* C10: every transient transport error (timeout, connection failure, 5xx) is
   retried, with at most 3 attempts per call; a third failure ends the call with
   that failure, and a success stops the retries. *)
C10_TransientRetried ==
    /\ Len(cLog) <= StopAfterAttempt
    /\ \A i \in 1..Len(cLog) :
          /\ cLog[i] \in {"timeout", "connerr", "s5xx"} =>
                IF i < StopAfterAttempt
                THEN i < Len(cLog) \/ cRet = "running"
                ELSE cRet = "reraise"
          /\ cLog[i] = "ok" => (i = Len(cLog) /\ cRet = "value")

(* C11: a call that fails for a non-transient reason (a client-error status other
   than 404, or a malformed response) is never retried: the attempt that meets it is the
   last of the call, so a call whose first attempt meets it makes one attempt. *)
C11_NonTransientNotRetried ==
    \A i \in 1..Len(cLog) :
        cLog[i] \in {"s4xx", "malformed"} =>
            (i = Len(cLog) /\ cRet # "running")

----------------------------------------------------------------------------
(* Properties of the candidate selection, checked under SpecM *)

(* the recordings that carry a duration, and their distance to the target *)
WithDuration == {i \in 1..Len(mRecs) : mRecs[i] # 0}
Delta(i) == IF mRecs[i] >= mTarget THEN mRecs[i] - mTarget ELSE mTarget - mRecs[i]

(* C12: with a non-empty candidate list and a target duration, the fuzzy search
   returns a candidate whose duration is within 5000 ms of the target and closest
   to it among all candidates; when no candidate is within 5000 ms it returns
   the first candidate. *)
C12_FuzzyMatchSelection ==
    (mOut.done /\ mRecs # <<>> /\ mTarget # 0)
        => IF \E i \in WithDuration : Delta(i) <= 5000
           THEN /\ mOut.pos \in WithDuration
                /\ Delta(mOut.pos) <= 5000
                /\ \A j \in WithDuration : Delta(mOut.pos) <= Delta(j)
           ELSE mOut.pos = 1

(* deltas [4999, 6000, 2000]: the third candidate is returned, not the first *)
C12_Witness ==
    /\ mOut.done
    /\ mTarget = 200000
    /\ mRecs = <<204999, 206000, 202000>>
    /\ mOut.pos = 3

----------------------------------------------------------------------------
(* Properties of the Source B chain, checked under SpecF *)

(* C13: in a call that went through the Source B chain, the fuzzy search is
   performed whenever the track has no ISRC or the ISRC lookup failed, i.e. did
   not lead to a query of AcousticBrainz with the id it found. *)
C13_FuzzyAfterFailedIsrc ==
    (pc = "done" /\ invoked \cap {"isrc", "fuzzy", "ab"} # {}
        /\ (~HasIsrc(cur) \/ "ab" \notin invoked))
        => "fuzzy" \in invoked

----------------------------------------------------------------------------
(* Further properties of the preview analyzer, checked under SpecA *)

(* C14: analyze_preview with an empty or missing clip URL returns absent at once:
   no download, no run of the analyzer, no temporary file, and the Analysis Cache
   is neither read (an unreadable entry raises nothing) nor modified. *)
C14_EmptyUrlReturnsAbsent ==
    (apc # "idle" /\ aUrl \in {"", "NONE"})
        => /\ apc = "done"
           /\ aRes = ARes("none", NoAFile)
           /\ aDown = 0 /\ aRuns = 0 /\ aTmp = "none"
           /\ acache[aTrack] = aPre

(* no URL, while the cache holds a current entry for the track *)
C14_Witness ==
    /\ apc = "done" /\ aUrl = "NONE"
    /\ aPre.kind = "obj" /\ aPre.ver = "1.0.0"
    /\ aRes.tag = "none"

(* C15: when analyze_preview finds a readable entry for the track whose version tag
   is the current analyzer version, it returns that entry and performs no download,
   no analysis, no temporary-file creation and no cache write. *)
C15_CacheHitNoWork ==
    (apc # "idle" /\ aUrl \notin {"", "NONE"} /\ aPre.kind = "obj" /\ aPre.ver = "1.0.0")
        => /\ apc = "done"
           /\ aRes = ARes("value", aPre)
           /\ aDown = 0 /\ aRuns = 0 /\ aTmp = "none"
           /\ acache[aTrack] = aPre

(* a hit on an entry that an earlier call of the same run wrote *)
C15_Witness ==
    /\ apc = "done" /\ aUrl = "u2"
    /\ aPre.kind = "obj" /\ aPre.ver = "1.0.0" /\ aPre.feat = "c2"
    /\ aRes = ARes("value", aPre)

(* C16: after analyze_preview has ended in any way, no temporary file created by
   the call remains. *)
C16_TempFileAlwaysDeleted ==
    apc = "done" => aTmp # "present"

(* C17: whenever analyze_preview ends by raising AudioProcessingError, the Analysis
   Cache content for the track is the same as before the call. *)
C17_ProcessingFailureNotCached ==
    (apc = "done" /\ aRes.tag = "AudioProcessingError")
        => acache[aTrack] = aPre

(* the response of the catalog client for the outcome of the call in flight *)
SurfacedAs == GetTrackAudioFeatures(aRes).tag

(* C18: a transport failure of the download makes analyze_preview raise
   PreviewDownloadError; the analyzer is never run, no temporary file is created,
   the Analysis Cache is unchanged, and the catalog client raises an error to its
   caller instead of returning absent. *)
C18_DownloadFailureSurfaced ==
    (apc = "done" /\ aClip \in {"timeout", "connerror", "httperror"})
        => /\ aRes.tag = "PreviewDownloadError"
           /\ aRuns = 0 /\ aTmp = "none"
           /\ acache[aTrack] = aPre
           /\ SurfacedAs = "RuntimeError"

(* the download timed out while a stale entry was in the cache *)
C18_Witness ==
    /\ apc = "done" /\ aClip = "timeout"
    /\ aPre.kind = "obj" /\ aPre.ver = "0.9.0"
    /\ aRes.tag = "PreviewDownloadError"

(* C19: when download and analysis succeeded but the cache entry could not be
   written, analyze_preview still returns the Descriptor Set tagged with analyzer
   version, track id and clip URL, and raises no error. *)
C19_CacheWriteFailureNonFatal ==
    (apc = "done" /\ aRuns = 1 /\ aClip \in {"c1", "c2"}
        /\ aRes.tag # "CancelledError"
        /\ acache[aTrack] # AFile("obj", "1.0.0", aTrack, aUrl, aClip))
        => aRes = ARes("value", AFile("obj", "1.0.0", aTrack, aUrl, aClip))

----------------------------------------------------------------------------
(* Properties of the mode detection, checked under SpecK *)

(* C20: with detected key k, the analyzer reports major (mode 1) when the energy at
   bin (k+4) mod 12 is greater than or equal to the energy at bin (k+3) mod 12, and
   minor (mode 0) only when it is strictly smaller. *)
C20_MajorWinsTies ==
    kOut.done =>
        kOut.mode = IF kChroma[(kOut.key + 4) % 12] >= kChroma[(kOut.key + 3) % 12]
                    THEN 1 ELSE 0

----------------------------------------------------------------------------
(* Properties of two concurrent calls, checked under SpecP *)

(* C21: when two get_features calls for the same track both missed the cache and
   both ended, the final cache entry does not depend on the interleaving: a
   Descriptor Set that one of them found is not replaced by the negative marker
   of the other. *)
C21_ConcurrentMissesBenign ==
    (pc = "done" /\ oPc = "done" /\ wrote = 1 /\ oRes.tag \in {"value", "none"}
        /\ (result.tag = "value" \/ oRes.tag = "value"))
        => ~IsMarker(fcache[cur])

----------------------------------------------------------------------------
(* Properties of the catalog client, checked under SpecT *)

(* the catalog returned a track without a usable preview URL *)
NoPreviewUrl == tAns \in {"NONE", ""}

(* what the claim asks of a finished call *)
LooksUpOnceThenDelegates ==
    /\ tLookups = <<tId>>
    /\ IF NoPreviewUrl
       THEN tRes.tag = "none" /\ tCalls = <<>>
       ELSE tCalls = << <<tAns, tId>> >> /\ tRes = tGot

(* C22 as stated: every get_track_audio_features(track_id) call looks the track up
   exactly once with the unchanged id, returns absent without invoking the
   analyzer when there is no preview URL, and otherwise invokes analyze_preview
   exactly once with (that URL, the same id) and returns its result unchanged. *)
C22_AsStated ==
    tPc = "done" => LooksUpOnceThenDelegates

(* C22 amended: the same for a call on an authenticated client with the analyzer
   installed whose catalog lookup returns a track and whose analysis, if one is
   made, does not end in an analysis error (that error is raised as
   RuntimeError). *)
C22_LookupOnceThenDelegate ==
    (tPc = "done" /\ tAuth /\ tHasAnalyzer
        /\ tAns \notin {"SpotifyException", "ConnectionError"}
        /\ tGot.tag \notin {"PreviewDownloadError", "AudioProcessingError"})
        => LooksUpOnceThenDelegates

(* the analyzer was invoked with (u2, t2) and its value came back *)
C22_Witness ==
    /\ tPc = "done" /\ tId = "t2" /\ tAns = "u2"
    /\ tCalls = << <<"u2", "t2">> >>
    /\ tRes.tag = "value" /\ tRes.val.track = "t2"

----------------------------------------------------------------------------
(* Further properties of the preview analyzer, checked under SpecA *)

(* C23: two runs of the analyzer on the same decoded audio produce the same
   features: what a run returns equals what the first run on that audio produced,
   whatever the track id, the clip URL, the cache content and the earlier calls. *)
C23_AnalyzerDeterministic ==
    (apc = "done" /\ aRuns = 1 /\ aRes.tag = "value")
        => aRes.val.feat = aSeen[aClip]

(* a clip analysed before is analysed again for another track *)
C23_Witness ==
    /\ apc = "done" /\ aAgain /\ aTrack = "t2" /\ aClip = "c2"
    /\ aRes.tag = "value" /\ aRes.val.feat = "c2"

(* C25: once analyze_preview has found an entry with a version tag other than the
   current one, the stale entry is deleted: after the call has ended no entry
   with the stale tag is stored for the track. *)
C25_StaleEntryPurged ==
    (apc = "done" /\ aUrl \notin {"", "NONE"} /\ aPre.kind = "obj" /\ aPre.ver # "1.0.0")
        => ~(acache[aTrack].kind = "obj" /\ acache[aTrack].ver = aPre.ver)

----------------------------------------------------------------------------
(* Properties of the energy computation, checked under SpecE *)

(* mean RMS and 95th-percentile RMS of the clip, both times 100 * Len(eRms) *)
MeanScaled == 100 * SumSeq(eRms)
P95Scaled == Len(eRms) * Percentile95(eRms)

(* C24: for every RMS sequence the reported energy lies in [0,1], it is the ratio
   mean/95th-percentile when that ratio is below 1, and it is exactly 1.0
   whenever the ratio reaches or exceeds 1. *)
C24_EnergyClamped ==
    eOut.done =>
        /\ eOut.den > 0 /\ 0 <= eOut.num /\ eOut.num <= eOut.den
        /\ (P95Scaled > 0 /\ MeanScaled >= P95Scaled) => eOut.num = eOut.den
        /\ (P95Scaled > 0 /\ MeanScaled < P95Scaled) =>
                (eOut.num = MeanScaled /\ eOut.den = P95Scaled)

(* 20 quiet frames and one loud frame: the mean is above the 95th percentile *)
C24_Witness ==
    /\ eOut.done
    /\ Len(eRms) = 21 /\ eRms[1] = 100 /\ eRms[2] = 1
    /\ MeanScaled > P95Scaled
    /\ eOut.num = 1 /\ eOut.den = 1

----------------------------------------------------------------------------
(* Properties of Descriptor Set construction, checked under SpecV *)

(* the number a raw value stands for, when it stands for one *)
Numeric(x) == x.kind \in {"num", "numstr"}

(* the response or record carries a value that maps outside the canonical ranges *)
OutOfRangeInput ==
    CASE vSource = "getsongbpm" ->
            \/ (vPayload.tempo.kind = "numstr" /\ vPayload.tempo.n <= 0)
            \/ \E u \in {"danceability", "acousticness"} :
                    vPayload[u].kind = "numstr" /\ (vPayload[u].n < 0 \/ vPayload[u].n > 100)
            \/ vPayload.time_signature.s \in {"2/4", "9/8"}
      [] vSource = "acousticbrainz" ->
            \/ (Numeric(vPayload.tempo) /\ vPayload.tempo.n <= 0)
            \/ (vPayload.key.kind = "num" /\ (vPayload.key.n < 0 \/ vPayload.key.n > 11))
      [] vSource = "cache" ->
            \/ (Numeric(vPayload.tempo) /\ vPayload.tempo.n <= 0)
            \/ (Numeric(vPayload.key) /\ (vPayload.key.n < 0 \/ vPayload.key.n > 11))
            \/ (Numeric(vPayload.mode) /\ vPayload.mode.n \notin {0, 1})
            \/ (Numeric(vPayload.energy) /\ (vPayload.energy.n < 0 \/ vPayload.energy.n > 100))
            \/ (Numeric(vPayload.time_signature)
                    /\ (vPayload.time_signature.n < 3 \/ vPayload.time_signature.n > 7))

(* C26: every Descriptor Set built by a source client or by the cache satisfies
   the canonical ranges on every populated field (tempo > 0, key in 0..11, mode in
   {0,1}, [0,1] fields within [0,1], time_signature in 3..7), and a response or
   record that maps to an out-of-range value yields absent. *)
C26_CanonicalRanges ==
    vOut.done =>
        /\ vOut.tag = "value" =>
            /\ vOut.f.tempo = Unpopulated \/ vOut.f.tempo > 0
            /\ vOut.f.key = Unpopulated \/ vOut.f.key \in 0..11
            /\ vOut.f.mode = Unpopulated \/ vOut.f.mode \in {0, 1}
            /\ \A u \in {"energy", "danceability", "acousticness"} :
                    vOut.f[u] = Unpopulated \/ vOut.f[u] \in 0..100
            /\ vOut.f.time_signature = Unpopulated \/ vOut.f.time_signature \in 3..7
        /\ OutOfRangeInput => vOut.tag = "absent"

(* a GetSongBPM response in 2/4 time, otherwise valid, is mapped to absent *)
C26_Witness ==
    /\ vOut.done /\ vSource = "getsongbpm"
    /\ vPayload.time_signature.s = "2/4"
    /\ vPayload.tempo = NumStr(120) /\ vPayload.key.s = "Am"
    /\ vPayload.danceability = NumStr(64) /\ vPayload.acousticness = NumStr(100)
    /\ vOut.tag = "absent"

----------------------------------------------------------------------------
(* Order of the waterfall and of the Source B chain, checked under SpecF *)

ChainOps == {"isrc", "fuzzy", "ab"}

(* the entry FeatureCache.set writes for a Descriptor Set *)
EntryOf(f, ds) ==
    /\ f.kind = "obj" /\ ~f.nf /\ f.ra = "naive" /\ f.rad = ds.ret
    /\ f.src = ds.src /\ f.key = ds.key /\ f.sid = ds.sid

(* C27: in every get_features call the cache is checked before any source is
   called, GetSongBPM (when configured) is called before any operation of the
   chain, and the call performs at most one cache write: the returned Descriptor
   Set when a source succeeded, the negative marker only when no source produced a
   result, and none when the call ends with a cache hit. *)
C27_WaterfallOrderAndWrites ==
    /\ pc = "idle" => (invoked = {} /\ wrote = 0)
    /\ (gsbEnabled /\ (pc \in ChainOps \/ invoked \cap ChainOps # {})) => "gsb" \in invoked
    /\ ~gsbEnabled => "gsb" \notin invoked
    /\ wrote <= 1
    /\ pc # "done" => wrote = 0
    /\ (pc = "done" /\ result.tag = "value" /\ invoked # {}) =>
            /\ wrote = 1
            /\ result.ds.src \in {"getsongbpm", "acousticbrainz"}
            /\ WritablePath(cur) => EntryOf(fcache[cur], result.ds)
    /\ (pc = "done" /\ result.tag = "none") =>
            /\ wrote = 1
            /\ invoked \cap ChainOps # {}
            /\ aRet.tag # "value"
            /\ WritablePath(cur) => (fcache[cur].kind = "obj" /\ fcache[cur].nf)
    /\ (pc = "done" /\ result.tag = "value" /\ invoked = {}) =>
            (wrote = 0 /\ fcache[cur] = pre)

(* GetSongBPM found nothing, the chain found the features, one write *)
C27_Witness ==
    /\ pc = "done" /\ gsbEnabled
    /\ invoked = {"gsb", "isrc", "ab"}
    /\ result.tag = "value" /\ result.ds.src = "acousticbrainz"
    /\ wrote = 1 /\ EntryOf(fcache[cur], result.ds)

(* C28: in the chain the id resolution precedes the feature lookup: AcousticBrainz
   is queried only after the ISRC lookup or the fuzzy search returned a recording
   id, and with exactly that id; it is not queried when the resolution returned no
   id, and the chain then ends absent; the fuzzy search is not run when the ISRC
   lookup returned an id. *)
C28_ChainOrdering ==
    /\ (pc = "ab" \/ "ab" \in invoked) =>
            (mbid # NoId /\ invoked \cap {"isrc", "fuzzy"} # {})
    /\ (pc = "done" /\ result.tag = "value" /\ result.ds.src = "acousticbrainz"
            /\ invoked # {}) => result.ds.sid = mbid
    /\ (pc = "done" /\ invoked \cap ChainOps # {} /\ ~bRaised /\ "ab" \notin invoked) =>
            (mbid = NoId /\ result = Res("none", NoneDS))
    /\ pc = "fuzzy" => mbid = NoId
    /\ (pc = "ab" /\ "fuzzy" \in invoked) => HasIsrc(cur) = ("isrc" \in invoked)
    /\ "isrc" \in invoked => HasIsrc(cur)

(* the ISRC lookup found nothing, the fuzzy search found the id that was queried *)
C28_Witness ==
    /\ pc = "done"
    /\ {"isrc", "fuzzy", "ab"} \subseteq invoked
    /\ mbid # NoId
    /\ result.tag = "value" /\ result.ds.src = "acousticbrainz" /\ result.ds.sid = mbid

----------------------------------------------------------------------------
(* Properties of the catalog client's rate-limit retry, checked under SpecR *)

Failed(k) == rLog[k].o # "ok"
SameBatch(j, k) == rLog[j].from = rLog[k].from

(* C29: _with_retry invokes the API call at most twice; a call failing with HTTP 429
   is retried exactly once after waiting the Retry-After delay; a failure that is
   not a rate limit is re-raised with no retry; a failure of the second attempt
   propagates; add_tracks_to_playlist sends the batches in order, at most 100 URIs
   each, and tracks_added equals the number of URIs given when every batch
   succeeds. *)
C29_RateLimitRetry ==
    /\ \A k \in DOMAIN rLog :
            /\ Cardinality({j \in DOMAIN rLog : SameBatch(j, k)}) <= 2
            /\ rLog[k].len >= 1 /\ rLog[k].len <= 100
            /\ rLog[k].from + rLog[k].len <= rN
            /\ k > 1 =>
                \/ /\ SameBatch(k - 1, k)
                   /\ rLog[k - 1].o = "429"
                   /\ (k > 2 => ~SameBatch(k - 2, k))
                   /\ rLog[k].slept =
                        (IF rLog[k - 1].ra = -1 THEN 1 ELSE rLog[k - 1].ra)
                \/ /\ rLog[k - 1].o = "ok"
                   /\ rLog[k].from = rLog[k - 1].from + rLog[k - 1].len
                   /\ rLog[k - 1].len = 100
                   /\ rLog[k].slept = -1
            /\ k = 1 => (rLog[k].from = 0 /\ rLog[k].slept = -1)
            /\ (Failed(k) /\ k < Len(rLog)) =>
                    (rLog[k].o = "429" /\ (k > 1 => ~SameBatch(k - 1, k)))
            /\ (Failed(k) /\ k = Len(rLog)) =>
                    IF rLog[k].o = "429" /\ (k = 1 \/ ~SameBatch(k - 1, k))
                    THEN rPc = "call" /\ rTry = 1
                    ELSE rPc = "done" /\ rRes.tag \in {"SpotifyException", "ConnectionError"}
                            /\ (rLog[k].o # "429" => rRes.tag = rLog[k].o)
    /\ (rPc = "done" /\ rRes.tag = "ok") =>
            /\ rRes.added = rN /\ rAdded = rN
            /\ \A k \in DOMAIN rLog : Failed(k) => (k < Len(rLog) /\ ~Failed(k + 1))
    /\ (rPc = "done" /\ rRes.tag = "RuntimeError") => (~rAuth /\ rLog = <<>>)

(* 201 URIs: the second batch is rate limited once, waits, and goes through *)
C29_Witness ==
    /\ rPc = "done" /\ rRes = AddResult("ok", 201)
    /\ Len(rLog) = 4
    /\ rLog[2].from = 100 /\ rLog[2].o = "429" /\ rLog[2].ra = 2
    /\ rLog[3].from = 100 /\ rLog[3].o = "ok" /\ rLog[3].slept = 2
    /\ rLog[4].from = 200 /\ rLog[4].len = 1

----------------------------------------------------------------------------
(* Frame of FeatureCache.clear, checked under SpecL *)

(* C30: clear(id) for a specific track id, any string including the empty string,
   removes at most that track's entry and leaves every other track's entry
   unchanged; after it get(id) returns absent; clearing an id with no entry is a
   no-op; only clear with no id removes all entries. *)
C30_ClearFrame ==
    (lOut.done /\ lArg # "NONE") =>
        /\ \A t \in TrackIds : t # lArg => lOut.files[t] = lFiles[t]
        /\ lArg \in TrackIds => (lOut.files[lArg] = NoFile /\ lOut.got = NoneDS)

====
